---------------------------- MODULE Spec2Model ----------------------------
(***************************************************************************)
(* Model of the time-phased overlay rendering pipeline of bowlingMate:     *)
(*   backend/mediapipe_overlay.py  get_phase_feedback, get_color, process  *)
(*   backend/main.py               _generate_overlay_sync and its caller   *)
(*                                 stream_analysis, generate_overlay,      *)
(*                                 analyze_bowl with analysis_cache, and   *)
(*                                 verify_authentication                   *)
(*   backend/agent.py              run_streamed_agent                      *)
(*                                                                         *)
(* Times are exact rationals [n |-> numerator, d |-> denominator]; the      *)
(* code computes them in binary floating point.  Membership in the python  *)
(* lists of a feedback record is modelled by sets of joint names.          *)
(***************************************************************************)
EXTENDS Integers, Sequences, FiniteSets, TLC

VARIABLES
    call,             \* a direct call of one of the module's pure functions:
                      \* its arguments and, once applied, its return value
    \* ---- the run's inputs and environment (fixed during a run)
    entry,            \* who started the run: "stream" (stream_analysis),
                      \* "analyze" (analyze_bowl, then stream_analysis), "cli"
                      \* (mediapipe_overlay's __main__), "endpoint"
                      \* (generate_overlay) or "none"
    env,              \* "available", "unavailable" (MEDIAPIPE_AVAILABLE false) or
                      \* "import_error" (mediapipe_overlay cannot be imported)
    want_overlay,     \* stream_analysis's generate_overlay query parameter
    video,            \* the source clip: what cv2 and ffprobe report of it
    mock_coach,       \* settings.MOCK_COACH
    \* ---- run_streamed_agent
    apc,              \* position of the agent's generator
    worker,           \* the thread running call_gemini: "idle", "running",
                      \* "finished" (it returned a response) or "failed" (it raised)
    phases_data,      \* the coach's phase verdicts: the phases of the success
                      \* event stream_analysis captured, or of the endpoint's form
    \* ---- /analyze and its cleanup task
    cache,            \* whether analysis_cache holds the uploaded video
    timer,            \* the cleanup task: "none", "pending" or "fired"
    \* ---- stream_analysis
    spc,              \* position of event_generator
    stream,           \* the events yielded, oldest first
    media,            \* where event_generator found the video: "unset",
                      \* "memory" (analysis_cache), "fallback" (disk or GCS) or
                      \* "missing"
    render_thread,    \* the thread the render pipeline of the run executes on:
                      \* "none", "worker", "event_loop" or "main"
    \* ---- two renders on two worker threads
    renders,          \* render -> [pc, name]: its position and the random part
                      \* of its temporary file names
    disk,             \* the temporary files in the temporary directory:
                      \* [name, kind, owner], owner the render that wrote it last
    \* ---- _generate_overlay_sync
    opc,              \* position of the orchestrator
    feedback_doc,     \* the feedback descriptor: [readable, phases]
    files,            \* the temporary files that exist
    created,          \* history: every temporary file written during the run
    transcoder_runs,  \* history: number of ffmpeg invocations
    transcoded,       \* history: the files handed to ffmpeg
    uploads,          \* history: number of upload_clip calls
    uploaded,         \* history: the files handed to upload_clip
    ffmpeg,           \* history: how the ffmpeg run ended
    upload_sent,      \* history: "none", or whether upload_clip returned ("ok")
                      \* or raised ("failed")
    result,           \* the orchestrator's return value
    cause,            \* history: why the orchestrator returned what it did
    \* ---- the /generate-overlay endpoint
    epc,              \* position of the endpoint's handler
    response,         \* what it answered: "unset", "overlay_url" or "error"
    \* ---- process
    ppc,              \* position of process
    phases,           \* the phases loaded from the feedback descriptor
    rotation_degrees,
    output_dims,      \* <<output_w, output_h>>
    frame_num,
    cur,              \* [idx, name, feedback] of the frame just rendered
    label,            \* the caption of the frame just rendered
    markers,          \* landmark -> colour of the circle drawn for it in the
                      \* frame just rendered (None: no circle)
    pose_found,       \* results.pose_landmarks of the frame just rendered
    written,          \* number of out.write calls
    scanned,          \* history: frames rendered with phase_idx = 0
    dilated,          \* history: frames rendered with phase_idx # 0
    output_size,      \* size in bytes of the rendered file
    render_end,       \* history: what the released writer left behind:
                      \* "pending", "missing", "small" or "ok"
    pret,             \* what process returned: "unset", "None" or "path"
    perr              \* the error process raised, "none" if none

inputVars  == <<entry, env, want_overlay, video, mock_coach>>
agentVars  == <<apc, worker>>
endpointVars == <<epc, response>>
streamVars == <<spc, stream>>
cacheVars  == <<cache, timer, media>>
raceVars   == <<renders, disk>>
orchHist   == <<transcoder_runs, transcoded, uploads, uploaded, ffmpeg, upload_sent>>
orchVars   == <<opc, feedback_doc, files, created, orchHist, result, cause>>
frameVars  == <<frame_num, cur, label, pose_found, markers, written, scanned,
                dilated>>
procVars   == <<ppc, phases, rotation_degrees, output_dims, frameVars,
                output_size, render_end, pret, perr>>
vars == <<call, inputVars, cacheVars, render_thread, raceVars, phases_data,
         agentVars, endpointVars, streamVars, orchVars, procVars>>

---------------------------------------------------------------------------
(* Bounds of the model *)

\* longest phase list handed to get_phase_feedback in a direct call
MaxPhases == 3
\* direct-call timestamps are k/10 seconds for k in 0..MaxTick
MaxTick == 62
\* largest phase index handed to get_color in a direct call
MaxPhaseIdx == 2
\* longest verdict list the coach hands to the overlay step
MaxVerdicts == 3
\* most frames of a sample clip (the scenario clips aside)
MaxFrames == 7

---------------------------------------------------------------------------
(* Constants of mediapipe_overlay.py *)

KEY_JOINTS ==
    { "LEFT_SHOULDER", "RIGHT_SHOULDER", "LEFT_ELBOW", "RIGHT_ELBOW",
      "LEFT_WRIST", "RIGHT_WRIST", "LEFT_HIP", "RIGHT_HIP",
      "LEFT_KNEE", "RIGHT_KNEE", "LEFT_ANKLE", "RIGHT_ANKLE" }

GREEN  == <<0, 255, 0>>
YELLOW == <<0, 255, 255>>
RED    == <<0, 0, 255>>
\* the literal get_color returns while scanning
SCAN_GRAY == <<180, 180, 180>>

\* python's None where a colour is expected (get_color's "don't draw")
None == << >>

\* the record get_phase_feedback returns when no phase matches
EmptyFeedback == [good |-> {}, slow |-> {}, injury_risk |-> {}]

---------------------------------------------------------------------------
(* Strings.  A python str is the sequence of its characters, so that     *)
(* lower(), upper() and the substring test are computed, not looked up.     *)

UpperLetters == <<"A", "B", "C", "D", "E", "F", "G", "H", "I", "J", "K", "L", "M",
                  "N", "O", "P", "Q", "R", "S", "T", "U", "V", "W", "X", "Y", "Z">>
LowerLetters == <<"a", "b", "c", "d", "e", "f", "g", "h", "i", "j", "k", "l", "m",
                  "n", "o", "p", "q", "r", "s", "t", "u", "v", "w", "x", "y", "z">>

LowerChar(c) ==
    IF \E i \in 1..26 : UpperLetters[i] = c
    THEN LowerLetters[CHOOSE i \in 1..26 : UpperLetters[i] = c] ELSE c
UpperChar(c) ==
    IF \E i \in 1..26 : LowerLetters[i] = c
    THEN UpperLetters[CHOOSE i \in 1..26 : LowerLetters[i] = c] ELSE c

\* str.lower(), str.upper()
lower(s) == [i \in 1..Len(s) |-> LowerChar(s[i])]
upper(s) == [i \in 1..Len(s) |-> UpperChar(s[i])]
\* python's  sub in s  on strings
Contains(sub, s) ==
    \E i \in 0..(Len(s) - Len(sub)) : SubSeq(s, i + 1, i + Len(sub)) = sub

\* string literals of the source and of the sample inputs
S_done == <<"d", "o", "n", "e">>
S_GOOD == <<"G", "O", "O", "D">>
S_NEEDS_WORK == <<"N", "E", "E", "D", "S", " ", "W", "O", "R", "K">>
S_ANALYZING == <<"A", "N", "A", "L", "Y", "Z", "I", "N", "G", ".", ".", ".">>
S_run_up == <<"r", "u", "n", "-", "u", "p">>
S_loading_coil == <<"l", "o", "a", "d", "i", "n", "g", "/", "c", "o", "i", "l">>
S_release_action == <<"r", "e", "l", "e", "a", "s", "e", " ", "a", "c", "t", "i", "o", "n">>
S_release == <<"r", "e", "l", "e", "a", "s", "e">>
S_wrist_snap == <<"w", "r", "i", "s", "t", "/", "s", "n", "a", "p">>
S_follow_through == <<"f", "o", "l", "l", "o", "w", "-", "t", "h", "r", "o", "u", "g", "h">>
S_head_eyes == <<"h", "e", "a", "d", "/", "e", "y", "e", "s">>
S_Run_up == <<"R", "u", "n", "-", "u", "p">>
S_Release == <<"R", "e", "l", "e", "a", "s", "e">>
S_Sprint == <<"S", "p", "r", "i", "n", "t">>
S_Overlap == <<"O", "v", "e", "r", "l", "a", "p">>
S_Late == <<"L", "a", "t", "e">>
S_ok == <<"o", "k">>
S_Very_Good == <<"V", "e", "r", "y", " ", "G", "o", "o", "d">>
S_GOOD_BUT ==
    <<"G", "O", "O", "D", " ", "B", "U", "T", " ", "N", "E", "E", "D", "S",
     " ", "W", "O", "R", "K">>
S_Loading_Coil == <<"L", "o", "a", "d", "i", "n", "g", "/", "C", "o", "i", "l">>
S_Release_Action == <<"R", "e", "l", "e", "a", "s", "e", " ", "A", "c", "t", "i", "o", "n">>
S_Wrist_Snap == <<"W", "r", "i", "s", "t", "/", "S", "n", "a", "p">>
S_Head_Eyes == <<"H", "e", "a", "d", "/", "E", "y", "e", "s">>
S_Follow_through == <<"F", "o", "l", "l", "o", "w", "-", "t", "h", "r", "o", "u", "g", "h">>

---------------------------------------------------------------------------
(* Exact rational time *)

Time(n, d) == [n |-> n, d |-> d]
\* a <= b and a < b on rationals with positive denominators
TLeq(a, b)  == a.n * b.d <= b.n * a.d
TLess(a, b) == a.n * b.d < b.n * a.d

---------------------------------------------------------------------------
(* get_phase_feedback *)

\* InPhase with the interval closed at its end
InPhase_Closed(phase, timestamp) ==
    TLeq(phase.start, timestamp) /\ TLeq(timestamp, phase.end)

\* the phase's interval test  phase['start'] <= timestamp < phase['end']
InPhase(phase, timestamp) ==
    TLeq(phase.start, timestamp) /\ TLess(timestamp, phase.end)

\* the for loop: 1-based position of the first matching phase, 0 when the
\* loop falls through
RECURSIVE FirstMatch(_, _, _)
FirstMatch(ps, timestamp, i) ==
    IF i > Len(ps) THEN 0
    ELSE IF InPhase(ps[i], timestamp) THEN i
    ELSE FirstMatch(ps, timestamp, i + 1)

\* (idx, name, feedback) with python's 0-based idx
get_phase_feedback(ps, timestamp) ==
    LET m == FirstMatch(ps, timestamp, 1) IN
    IF m # 0
    THEN [idx |-> m - 1, name |-> ps[m].name, feedback |-> ps[m].feedback]
    ELSE [idx |-> Len(ps) - 1, name |-> S_done, feedback |-> EmptyFeedback]

---------------------------------------------------------------------------
(* get_color *)

\* get_color testing slow before injury_risk
get_color_SlowFirst(name, feedback, phase_idx) ==
    LET in_feedback == \/ name \in feedback.injury_risk
                       \/ name \in feedback.slow
                       \/ name \in feedback.good
    IN  IF phase_idx = 0 THEN SCAN_GRAY
        ELSE IF ~in_feedback THEN None
        ELSE IF name \in feedback.slow THEN YELLOW
        ELSE IF name \in feedback.injury_risk THEN RED
        ELSE GREEN

\* get_color without the early return for joints feedback does not name
get_color_DefaultGood(name, feedback, phase_idx) ==
    IF phase_idx = 0 THEN SCAN_GRAY
    ELSE IF name \in feedback.injury_risk THEN RED
    ELSE IF name \in feedback.slow THEN YELLOW
    ELSE GREEN

\* get_color testing in_feedback before the scanning phase
get_color_FeedbackFirst(name, feedback, phase_idx) ==
    LET in_feedback == \/ name \in feedback.injury_risk
                       \/ name \in feedback.slow
                       \/ name \in feedback.good
    IN  IF ~in_feedback THEN None
        ELSE IF phase_idx = 0 THEN SCAN_GRAY
        ELSE IF name \in feedback.injury_risk THEN RED
        ELSE IF name \in feedback.slow THEN YELLOW
        ELSE GREEN

get_color(name, feedback, phase_idx) ==
    LET in_feedback == \/ name \in feedback.injury_risk
                       \/ name \in feedback.slow
                       \/ name \in feedback.good
    IN  IF phase_idx = 0 THEN SCAN_GRAY
        ELSE IF ~in_feedback THEN None
        ELSE IF name \in feedback.injury_risk THEN RED
        ELSE IF name \in feedback.slow THEN YELLOW
        ELSE GREEN

---------------------------------------------------------------------------
(* _generate_overlay_sync: verdicts -> feedback descriptor *)

\* a python dict with string keys is a function on its keys; {} is << >>
EmptyDict == << >>
DictGet(d, k, default) == IF k \in DOMAIN d THEN d[k] ELSE default

\* joint_map, as its (key, value) items
joint_map ==
    << <<S_run_up, [good |-> {"RIGHT_KNEE", "LEFT_KNEE", "RIGHT_HIP", "LEFT_HIP"}]>>,
       <<S_loading_coil, [good |-> {"RIGHT_SHOULDER", "LEFT_SHOULDER", "RIGHT_HIP"}]>>,
       <<S_release_action, [injury_risk |-> {"RIGHT_ELBOW"}, good |-> {"RIGHT_WRIST"}]>>,
       <<S_release, [injury_risk |-> {"RIGHT_ELBOW"}, good |-> {"RIGHT_WRIST"}]>>,
       <<S_wrist_snap, [slow |-> {"RIGHT_WRIST"}]>>,
       <<S_follow_through, [slow |-> {"RIGHT_HIP"}, good |-> {"RIGHT_SHOULDER"}]>>,
       <<S_head_eyes, [slow |-> {"LEFT_SHOULDER"}]>> >>

\* joint_map.get(name, {})
JointMapGet(name) ==
    IF \E i \in 1..Len(joint_map) : joint_map[i][1] = name
    THEN joint_map[CHOOSE i \in 1..Len(joint_map) : joint_map[i][1] = name][2]
    ELSE EmptyDict

\* the assumed clip length in seconds
duration == 5

\* fb of one verdict p
\* verdict_feedback without the RIGHT_SHOULDER defaults
verdict_feedback_NoDefault(p) ==
    LET name   == lower(p.name)
        status == upper(p.status)
    IN  IF Contains(S_GOOD, status)
        THEN [good |-> DictGet(JointMapGet(name), "good", {}),
              slow |-> {}, injury_risk |-> {}]
        ELSE IF Contains(S_NEEDS_WORK, status)
        THEN [good |-> {},
              slow |-> DictGet(JointMapGet(name), "slow", {}),
              injury_risk |-> DictGet(JointMapGet(name), "injury_risk", {})]
        ELSE EmptyFeedback

verdict_feedback(p) ==
    LET name   == lower(p.name)
        status == upper(p.status)
    IN  IF Contains(S_GOOD, status)
        THEN [good |-> DictGet(JointMapGet(name), "good", {"RIGHT_SHOULDER"}),
              slow |-> {}, injury_risk |-> {}]
        ELSE IF Contains(S_NEEDS_WORK, status)
        THEN [good |-> {},
              slow |-> DictGet(JointMapGet(name), "slow", {"RIGHT_SHOULDER"}),
              injury_risk |-> DictGet(JointMapGet(name), "injury_risk", {})]
        ELSE EmptyFeedback

\* feedback["phases"]: phase i (0-based) spans [i * duration / N, (i+1) * duration / N)
\* build_feedback with slices one second wide
build_feedback_UnitWidth(verdicts) ==
    [k \in 1..Len(verdicts) |->
        [start    |-> Time(k - 1, 1),
         end      |-> Time(k, 1),
         name     |-> verdicts[k].name,
         feedback |-> verdict_feedback(verdicts[k])]]

build_feedback(verdicts) ==
    LET N == IF Len(verdicts) > 1 THEN Len(verdicts) ELSE 1 IN
    [k \in 1..Len(verdicts) |->
        [start    |-> Time((k - 1) * duration, N),
         end      |-> Time(k * duration, N),
         name     |-> verdicts[k].name,
         feedback |-> verdict_feedback(verdicts[k])]]

\* p.get("name", "").lower() raises AttributeError on an element of the
\* phases list that has no get()
ConversionRaises(verdicts) ==
    \E k \in 1..Len(verdicts) : verdicts[k].type # "dict"

---------------------------------------------------------------------------
(* /generate-overlay: verdicts -> feedback descriptor *)

\* the endpoint's joint_map: the same items, without head/eyes
endpoint_joint_map ==
    << <<S_run_up, [good |-> {"RIGHT_KNEE", "LEFT_KNEE", "RIGHT_HIP", "LEFT_HIP"}]>>,
       <<S_loading_coil, [good |-> {"RIGHT_SHOULDER", "LEFT_SHOULDER", "RIGHT_HIP"}]>>,
       <<S_release_action, [injury_risk |-> {"RIGHT_ELBOW"}, good |-> {"RIGHT_WRIST"}]>>,
       <<S_release, [injury_risk |-> {"RIGHT_ELBOW"}, good |-> {"RIGHT_WRIST"}]>>,
       <<S_wrist_snap, [slow |-> {"RIGHT_WRIST"}]>>,
       <<S_follow_through, [slow |-> {"RIGHT_HIP"}, good |-> {"RIGHT_SHOULDER"}]>> >>

EndpointJointMapGet(name) ==
    IF \E i \in 1..Len(endpoint_joint_map) : endpoint_joint_map[i][1] = name
    THEN endpoint_joint_map[
             CHOOSE i \in 1..Len(endpoint_joint_map) :
                 endpoint_joint_map[i][1] = name][2]
    ELSE EmptyDict

endpoint_verdict_feedback(p) ==
    LET name   == lower(p.name)
        status == upper(p.status)
    IN  IF Contains(S_GOOD, status)
        THEN [good |-> DictGet(EndpointJointMapGet(name), "good", {"RIGHT_SHOULDER"}),
              slow |-> {}, injury_risk |-> {}]
        ELSE IF Contains(S_NEEDS_WORK, status)
        THEN [good |-> {},
              slow |-> DictGet(EndpointJointMapGet(name), "slow", {"RIGHT_SHOULDER"}),
              injury_risk |-> DictGet(EndpointJointMapGet(name), "injury_risk", {})]
        ELSE EmptyFeedback

endpoint_build_feedback(verdicts) ==
    LET N == IF Len(verdicts) > 1 THEN Len(verdicts) ELSE 1 IN
    [k \in 1..Len(verdicts) |->
        [start    |-> Time((k - 1) * duration, N),
         end      |-> Time(k * duration, N),
         name     |-> verdicts[k].name,
         feedback |-> endpoint_verdict_feedback(verdicts[k])]]

---------------------------------------------------------------------------
(* Inputs of a run *)

SeqsUpTo(S, n) == UNION { [1..k -> S] : k \in 0..n }

\* an element of the phases list that is a JSON object with a string name
\* and a string status
Verdict(name, status) == [type |-> "dict", name |-> name, status |-> status]
\* an element of the phases list that is a JSON string, not an object
NotADict == [type |-> "str", name |-> << >>, status |-> << >>]

\* sample verdicts: a GOOD one and a NEEDS WORK one whose names joint_map
\* knows, one with an unknown name and a status that is neither, and an
\* element that is no object
Verdicts ==
    { Verdict(S_Run_up, S_GOOD), Verdict(S_Release, S_NEEDS_WORK),
      Verdict(S_Sprint, S_ok), NotADict }

\* the phases of mock_response
MockPhases ==
    << Verdict(S_Run_up, S_NEEDS_WORK), Verdict(S_Loading_Coil, S_NEEDS_WORK),
       Verdict(S_Release_Action, S_NEEDS_WORK), Verdict(S_Wrist_Snap, S_GOOD),
       Verdict(S_Head_Eyes, S_NEEDS_WORK), Verdict(S_Follow_through, S_GOOD) >>

\* what ffprobe prints for the clip: no rotation line, a rotate= tag or a
\* rotation= side-data line with an integer, a line that is no integer, or
\* nothing because running ffprobe failed.  The integer is the multiple of
\* 90 a phone records, the angle of any other display matrix, or 360
RotationValues == {-270, -180, -90, 0, 45, 90, 180, 270, 360}
ProbeOutputs ==
    { [kind |-> "absent", v |-> 0], [kind |-> "fail", v |-> 0],
      [kind |-> "garbage", v |-> 0] }
    \cup [kind : {"rotate", "rotation"}, v : RotationValues]

Clip(opens, fps, w, h, frames, probe) ==
    [opens |-> opens, fps |-> fps, w |-> w, h |-> h, frames |-> frames,
     probe |-> probe]

NoProbe == [kind |-> "absent", v |-> 0]
\* clips cv2 cannot open, or reports unusable properties of
BadClips ==
    { Clip(FALSE, 0, 0, 0, 0, NoProbe), Clip(TRUE, 0, 4, 3, 0, NoProbe),
      Clip(TRUE, 1, 0, 3, 0, NoProbe), Clip(TRUE, 1, 4, 0, 0, NoProbe) }
\* clips uploaded for analysis: 1 or 2 frames per second, 4x3 pixels
StreamClips ==
    BadClips \cup
    { Clip(TRUE, fps, 4, 3, n, p) :
        fps \in {1, 2}, n \in 0..MaxFrames,
        p \in {NoProbe, [kind |-> "rotation", v |-> -90]} }

\* the clip of the frame-count scenario: 4 seconds at 30 frames per second
Clip120 == Clip(TRUE, 30, 4, 3, 120, NoProbe)
CliClips ==
    { Clip120, Clip(TRUE, 10, 4, 3, 22, NoProbe), Clip(FALSE, 0, 0, 0, 0, NoProbe) }
    \cup { Clip(TRUE, 1, 4, 3, MaxFrames, p) : p \in ProbeOutputs }

Doc(readable, ps) == [readable |-> readable, phases |-> ps]
NoDoc == Doc(FALSE, << >>)
Phase(s, e, name, fb) == [start |-> s, end |-> e, name |-> name, feedback |-> fb]

\* the two phases of the boundary and frame-count scenarios
ScenarioPhases ==
    << Phase(Time(0, 1), Time(2, 1), S_Run_up, EmptyFeedback),
       Phase(Time(2, 1), Time(4, 1), S_Release,
             [good |-> {}, slow |-> {}, injury_risk |-> {"RIGHT_ELBOW"}]) >>
\* a hand-written descriptor naming joints in several categories at once
OverlapPhases ==
    << Phase(Time(0, 1), Time(1, 1), S_Run_up,
             [good |-> {"LEFT_KNEE"}, slow |-> {"LEFT_KNEE"}, injury_risk |-> {}]),
       Phase(Time(1, 1), Time(3, 1), S_Overlap,
             [good |-> {"RIGHT_ELBOW", "RIGHT_WRIST", "RIGHT_HIP", "LEFT_HIP"},
              slow |-> {"RIGHT_ELBOW", "RIGHT_WRIST", "RIGHT_KNEE"},
              injury_risk |-> {"RIGHT_ELBOW", "RIGHT_HIP", "LEFT_ANKLE"}]),
       Phase(Time(4, 1), Time(5, 1), S_Late,
             [good |-> {"LEFT_WRIST"}, slow |-> {}, injury_risk |-> {}]) >>
\* a hand-written descriptor, time-ordered and non-overlapping, whose first
\* phase starts after the clip does
LateStartPhases ==
    << Phase(Time(1, 1), Time(2, 1), S_Run_up, EmptyFeedback),
       Phase(Time(2, 1), Time(3, 1), S_Release,
             [good |-> {"LEFT_KNEE"}, slow |-> {}, injury_risk |-> {"RIGHT_ELBOW"}]) >>
CliDocs ==
    { Doc(TRUE, ScenarioPhases), Doc(TRUE, OverlapPhases),
      Doc(TRUE, LateStartPhases), Doc(TRUE, << >>), NoDoc }

\* the landmarks the pose estimator names: the key joints and, standing for
\* the other 21, two that are not key joints
Landmarks == KEY_JOINTS \cup {"NOSE", "LEFT_HEEL"}

\* the phases lists of the coach's JSON answer
CoachPhases == SeqsUpTo(Verdicts, MaxVerdicts)

\* the phases form fields posted to /generate-overlay, once parsed
EndpointForms ==
    { << >>, <<NotADict>>, <<Verdict(S_Run_up, S_GOOD)>>,
      <<Verdict(S_Release, S_NEEDS_WORK), Verdict(S_Head_Eyes, S_NEEDS_WORK)>> }
\* the clips posted to /generate-overlay
EndpointClips == { Clip(TRUE, 1, 4, 3, 3, NoProbe), Clip(FALSE, 0, 0, 0, 0, NoProbe) }

StreamRuns ==
    [entry : {"stream"}, env : {"available", "unavailable", "import_error"},
     want_overlay : BOOLEAN, phases_data : {<< >>},
     video : StreamClips, doc : {NoDoc}, mock : BOOLEAN]
CliRuns ==
    [entry : {"cli"}, env : {"available", "unavailable"}, want_overlay : {FALSE},
     phases_data : {<< >>}, video : CliClips, doc : CliDocs, mock : {FALSE}]
\* an upload through /analyze followed by the stream request for it
CacheRuns ==
    [entry : {"analyze"}, env : {"available"}, want_overlay : BOOLEAN,
     phases_data : {<< >>},
     video : {Clip(TRUE, 1, 4, 3, 2, NoProbe), Clip(FALSE, 0, 0, 0, 0, NoProbe)},
     doc : {NoDoc}, mock : BOOLEAN]
EndpointRuns ==
    [entry : {"endpoint"}, env : {"available", "unavailable"},
     want_overlay : {FALSE}, phases_data : EndpointForms,
     video : EndpointClips, doc : {NoDoc}, mock : {FALSE}]

---------------------------------------------------------------------------
(* Direct calls of the pure functions, as the unit tests make them *)

---------------------------------------------------------------------------
(* verify_authentication(request, call_next), main.py *)

S_root == <<"/">>
S_docs == <<"/", "d", "o", "c", "s">>
S_openapi ==
    <<"/", "o", "p", "e", "n", "a", "p", "i", ".", "j", "s", "o", "n">>
S_health == <<"/", "h", "e", "a", "l", "t", "h">>
S_stream_analysis ==
    <<"/", "s", "t", "r", "e", "a", "m", "-", "a", "n", "a", "l", "y", "s",
    "i", "s">>
S_generate_overlay ==
    <<"/", "g", "e", "n", "e", "r", "a", "t", "e", "-", "o", "v", "e", "r",
    "l", "a", "y">>
S_health_slash == <<"/", "h", "e", "a", "l", "t", "h", "/">>
S_Docs_path == <<"/", "D", "o", "c", "s">>
S_Bearer == <<"B", "e", "a", "r", "e", "r", " ">>
S_bearer_lower == <<"b", "e", "a", "r", "e", "r", " ">>
S_Basic == <<"B", "a", "s", "i", "c", " ">>
S_wrong == <<"w", "r", "o", "n", "g">>
\* settings.API_SECRET
API_SECRET ==
    <<"w", "e", "l", "l", "b", "o", "w", "l", "e", "d", "-", "h", "a", "c",
    "k", "a", "t", "h", "o", "n", "-", "s", "e", "c", "r", "e", "t">>

\* s.startswith(prefix)
startswith(s, prefix) ==
    /\ Len(s) >= Len(prefix)
    /\ \A i \in 1..Len(prefix) : s[i] = prefix[i]

\* s[n:]
SliceFrom(s, n) == [i \in 1..(IF Len(s) > n THEN Len(s) - n ELSE 0) |-> s[i + n]]

\* a request header: absent, or present with a value
Header(v) == [set |-> TRUE, v |-> v]
NoHeader == [set |-> FALSE, v |-> << >>]

\* the paths served without authentication
ExemptPaths == {S_root, S_docs, S_openapi, S_health}

\* authenticated with the token comparison of the Bearer method left out
authenticated_AnyBearer(auth_header, legacy_secret) ==
    \/ auth_header.set /\ auth_header.v # << >> /\ startswith(auth_header.v, S_Bearer)
    \/ legacy_secret.set /\ legacy_secret.v = API_SECRET

\* the value of authenticated after the two methods
authenticated(auth_header, legacy_secret) ==
    LET bearer ==
            /\ auth_header.set /\ auth_header.v # << >>
            /\ startswith(auth_header.v, S_Bearer)
            /\ SliceFrom(auth_header.v, 7) = API_SECRET
    IN  bearer \/ (legacy_secret.set /\ legacy_secret.v = API_SECRET)

\* the middleware's answer: the handler's response once call_next ran,
\* else the 401 response
verify_authentication(path, auth_header, legacy_secret) ==
    IF path \in ExemptPaths THEN [status |-> 200, handler |-> TRUE]
    ELSE IF ~authenticated(auth_header, legacy_secret)
         THEN [status |-> 401, handler |-> FALSE]
         ELSE [status |-> 200, handler |-> TRUE]

\* requests: exempt paths, protected paths and near misses of exempt ones
RequestPaths ==
    ExemptPaths \cup {S_stream_analysis, S_generate_overlay, S_health_slash,
                      S_Docs_path}
AuthorizationHeaders ==
    { NoHeader, Header(<< >>), Header(S_Bearer \o API_SECRET),
      Header(S_Bearer \o S_wrong), Header(S_Bearer),
      Header(S_bearer_lower \o API_SECRET), Header(S_Basic \o API_SECRET),
      Header(API_SECRET) }
LegacyHeaders == { NoHeader, Header(API_SECRET), Header(S_wrong), Header(<< >>) }

\* verdicts converted directly: every phase name of the table, one it does
\* not hold and the empty one, with statuses in several spellings
ConvertNames ==
    { S_Run_up, S_Loading_Coil, S_Release_Action, S_Release, S_Wrist_Snap,
      S_Follow_through, S_Head_Eyes, S_Sprint, << >> }
ConvertStatuses ==
    { S_GOOD, lower(S_GOOD), S_Very_Good, S_GOOD_BUT, S_NEEDS_WORK,
      lower(S_NEEDS_WORK), S_ok, << >> }
ConvertCalls ==
    [fn : {"verdict_feedback"}, name : ConvertNames, status : ConvertStatuses,
     pc : {"called"}, ret : {EmptyFeedback}]

AuthCalls ==
    [fn : {"verify_authentication"}, path : RequestPaths,
     authorization : AuthorizationHeaders, legacy : LegacyHeaders,
     pc : {"called"}, ret : {[status |-> 0, handler |-> FALSE]}]

\* joints the direct-call feedback records are built from
CallJoints == {"RIGHT_ELBOW", "LEFT_ANKLE"}
\* joint names looked up: two that feedback may name and one it never names
CallNames == CallJoints \cup {"RIGHT_KNEE"}

CallFeedbacks ==
    [good : SUBSET CallJoints, slow : SUBSET CallJoints,
     injury_risk : SUBSET CallJoints]

ColorCalls ==
    [fn : {"get_color"}, name : CallNames, feedback : CallFeedbacks,
     phase_idx : 0..MaxPhaseIdx, pc : {"called"}, ret : {None}]

\* phases the direct-call phase lists are drawn from: the two of the
\* boundary scenario, one that overlaps both, and one after a gap
PhasePool ==
    { ScenarioPhases[1], ScenarioPhases[2],
      Phase(Time(1, 1), Time(3, 1), S_Overlap,
            [good |-> {"RIGHT_ELBOW"}, slow |-> {}, injury_risk |-> {}]),
      Phase(Time(9, 2), Time(6, 1), S_Late,
            [good |-> {}, slow |-> {"RIGHT_HIP"}, injury_risk |-> {}]) }

PhaseCalls ==
    [fn : {"get_phase_feedback"}, phases : SeqsUpTo(PhasePool, MaxPhases),
     timestamp : { Time(k, 10) : k \in 0..MaxTick }, pc : {"called"},
     ret : {[idx |-> 0, name |-> << >>, feedback |-> EmptyFeedback]}]

\* no ffmpeg run yet
NoOutcome == [kind |-> "none", rc |-> 0, wrote |-> FALSE]

\* no run of the pipeline: the state of the pipeline's variables while a
\* pure function is called directly
NoClip == Clip(FALSE, 0, 0, 0, 0, NoProbe)
NoPhase == [idx |-> 0, name |-> << >>, feedback |-> EmptyFeedback]

ProcessLocalsInit ==
    /\ phases = << >>
    /\ rotation_degrees = 0
    /\ output_dims = <<0, 0>>
    /\ frame_num = 0
    /\ cur = NoPhase
    /\ label = << >>
    /\ pose_found = FALSE
    /\ markers = [l \in Landmarks |-> None]
    /\ written = 0
    /\ scanned = 0
    /\ dilated = 0
    /\ output_size = 0
    /\ render_end = "pending"
    /\ pret = "unset"
    /\ perr = "none"

OrchLocalsInit ==
    /\ files = {}
    /\ created = {}
    /\ transcoder_runs = 0
    /\ transcoded = {}
    /\ uploads = 0
    /\ uploaded = {}
    /\ ffmpeg = NoOutcome
    /\ upload_sent = "none"
    /\ result = "unset"
    /\ cause = "none"

\* the renders that run at the same time, the random parts tempfile can
\* give a file name, and a render that has not started
Renders == {1, 2}
Names == {"a", "b"}
NoRender == [pc |-> "idle", name |-> "none"]

StartRun(run) ==
    /\ entry = run.entry
    /\ env = run.env
    /\ want_overlay = run.want_overlay
    /\ phases_data = run.phases_data
    /\ video = run.video
    /\ feedback_doc = run.doc
    /\ mock_coach = run.mock
    /\ apc = IF run.entry \in {"stream", "analyze"} THEN "start" ELSE "idle"
    /\ worker = "idle"
    /\ cache = FALSE
    /\ timer = "none"
    /\ spc = IF run.entry = "stream" THEN "lookup"
             ELSE IF run.entry = "analyze" THEN "upload" ELSE "idle"
    /\ stream = << >>
    /\ media = "unset"
    /\ render_thread = IF run.entry = "cli" THEN "main" ELSE "none"
    /\ renders = [r \in Renders |-> NoRender]
    /\ disk = {}
    /\ opc = "idle"
    /\ epc = IF run.entry = "endpoint" THEN "called" ELSE "idle"
    /\ response = "unset"
    /\ ppc = IF run.entry = "cli" THEN "called" ELSE "idle"
    /\ OrchLocalsInit
    /\ ProcessLocalsInit

NoRun ==
    [entry |-> "none", env |-> "available", want_overlay |-> FALSE,
     phases_data |-> << >>, video |-> NoClip, doc |-> NoDoc, mock |-> FALSE]

ApplyGetColor ==
    /\ call.fn = "get_color"
    /\ call.pc = "called"
    /\ call' = [call EXCEPT
                  !.pc = "returned",
                  !.ret = get_color(call.name, call.feedback, call.phase_idx)]
    /\ UNCHANGED <<inputVars, cacheVars, render_thread, raceVars, phases_data, agentVars, endpointVars, streamVars,
                   orchVars, procVars>>

ApplyGetPhaseFeedback ==
    /\ call.fn = "get_phase_feedback"
    /\ call.pc = "called"
    /\ call' = [call EXCEPT
                  !.pc = "returned",
                  !.ret = get_phase_feedback(call.phases, call.timestamp)]
    /\ UNCHANGED <<inputVars, cacheVars, render_thread, raceVars, phases_data, agentVars, endpointVars, streamVars,
                   orchVars, procVars>>

InitColor == call \in ColorCalls /\ StartRun(NoRun)
NextColor == ApplyGetColor
SpecColor == InitColor /\ [][NextColor]_vars

InitPhase == call \in PhaseCalls /\ StartRun(NoRun)
NextPhase == ApplyGetPhaseFeedback
SpecPhase == InitPhase /\ [][NextPhase]_vars

ApplyVerifyAuthentication ==
    /\ call.fn = "verify_authentication"
    /\ call.pc = "called"
    /\ call' = [call EXCEPT
                  !.pc = "returned",
                  !.ret = verify_authentication(call.path, call.authorization,
                                                call.legacy)]
    /\ UNCHANGED <<inputVars, cacheVars, render_thread, raceVars, phases_data,
                   agentVars, endpointVars, streamVars, orchVars, procVars>>

ApplyVerdictFeedback ==
    /\ call.fn = "verdict_feedback"
    /\ call.pc = "called"
    /\ call' = [call EXCEPT
                  !.pc = "returned",
                  !.ret = verdict_feedback(Verdict(call.name, call.status))]
    /\ UNCHANGED <<inputVars, cacheVars, render_thread, raceVars, phases_data,
                   agentVars, endpointVars, streamVars, orchVars, procVars>>

InitConvert == call \in ConvertCalls /\ StartRun(NoRun)
NextConvert == ApplyVerdictFeedback
SpecConvert == InitConvert /\ [][NextConvert]_vars

InitAuth == call \in AuthCalls /\ StartRun(NoRun)
NextAuth == ApplyVerifyAuthentication
SpecAuth == InitAuth /\ [][NextAuth]_vars

---------------------------------------------------------------------------
(* process(input_path, feedback_path, output_path) *)

\* the smallest size the rendered file may have
MinOutputSize == 1000
\* sizes the rendered file is observed with
OutputSizes == {MinOutputSize - 1, MinOutputSize}

Raise(err) ==
    /\ ppc' = "raised"
    /\ perr' = err

\* probe_rotation without the normalisation of negative values
probe_rotation_NoNormalise(probe) ==
    IF probe.kind \in {"rotate", "rotation"} THEN probe.v ELSE 0

\* rotation_degrees after the probe's try block
probe_rotation(probe) ==
    LET parsed == IF probe.kind \in {"rotate", "rotation"} THEN probe.v ELSE 0
    IN  IF parsed < 0 THEN 360 + parsed ELSE parsed

\* output_dimensions without the swap
output_dimensions_NoSwap(rotation, w, h) == <<w, h>>

\* (output_w, output_h)
output_dimensions(rotation, w, h) ==
    IF rotation \in {90, 270} THEN <<h, w>> ELSE <<w, h>>

\* Repeats with three repeats in the feedback phases
Repeats_Triple(phase_idx) == IF phase_idx = 0 THEN 1 ELSE 3

\* how often the frame is written
Repeats(phase_idx) == IF phase_idx = 0 THEN 1 ELSE 4

\* the caption's label
Label(phase_idx, phase_name) ==
    IF phase_idx = 0 THEN S_ANALYZING ELSE upper(phase_name)

\* DrawMarkers without the KEY_JOINTS filter
DrawMarkers_AllLandmarks(pose, feedback, phase_idx) ==
    [l \in Landmarks |-> IF pose THEN get_color(l, feedback, phase_idx) ELSE None]

\* the circles of one frame: none without a pose, else one per key joint
\* that get_color gives a colour
DrawMarkers(pose, feedback, phase_idx) ==
    [l \in Landmarks |->
        IF pose /\ l \in KEY_JOINTS THEN get_color(l, feedback, phase_idx) ELSE None]

\* OutputError without the size test
OutputError_ExistsOnly(exists, size) ==
    IF ~exists THEN "output_missing" ELSE "none"

\* the post-condition on the rendered file: the error to raise, or "none"
OutputError(exists, size) ==
    IF ~exists THEN "output_missing"
    ELSE IF size < MinOutputSize THEN "output_too_small"
    ELSE "none"

\* lines 93-95
ProcessUnavailable ==
    /\ ppc = "called"
    /\ env # "available"
    /\ ppc' = "returned"
    /\ pret' = "None"
    /\ UNCHANGED <<call, inputVars, cacheVars, render_thread, raceVars, phases_data, agentVars, endpointVars, streamVars, orchVars, phases,
                   rotation_degrees, output_dims, frameVars, output_size,
                   render_end, perr>>

\* line 97, load_timed_feedback
ProcessLoad ==
    /\ ppc = "called"
    /\ env = "available"
    /\ IF feedback_doc.readable
       THEN /\ phases' = feedback_doc.phases
            /\ ppc' = "probe"
            /\ perr' = perr
       ELSE /\ Raise("feedback_unreadable")
            /\ phases' = phases
    /\ UNCHANGED <<call, inputVars, cacheVars, render_thread, raceVars, phases_data, agentVars, endpointVars, streamVars, orchVars, rotation_degrees,
                   output_dims, frameVars, output_size, render_end, pret>>

\* ProcessProbe without the except clause: a failed probe or an unparsable
\* value ends the render
ProcessProbe_Raises ==
    /\ ppc = "probe"
    /\ IF video.probe.kind \in {"fail", "garbage"}
       THEN /\ Raise("probe_failed")
            /\ UNCHANGED rotation_degrees
       ELSE /\ rotation_degrees' = probe_rotation(video.probe)
            /\ ppc' = "open"
            /\ UNCHANGED perr
    /\ UNCHANGED <<call, inputVars, cacheVars, render_thread, raceVars,
                   phases_data, agentVars, endpointVars, streamVars, orchVars,
                   phases, output_dims, frameVars, output_size, render_end, pret>>

\* lines 100-128
ProcessProbe ==
    /\ ppc = "probe"
    /\ rotation_degrees' = probe_rotation(video.probe)
    /\ ppc' = "open"
    /\ UNCHANGED <<call, inputVars, cacheVars, render_thread, raceVars, phases_data, agentVars, endpointVars, streamVars, orchVars, phases, output_dims,
                   frameVars, output_size, render_end, pret, perr>>

\* ProcessOpen without the validation of fps, width and height
ProcessOpen_NoValidation ==
    /\ ppc = "open"
    /\ IF ~video.opens THEN Raise("open_failed")
       ELSE ppc' = "writer" /\ perr' = perr
    /\ UNCHANGED <<call, inputVars, cacheVars, render_thread, raceVars, phases_data, agentVars, endpointVars,
                   streamVars, orchVars, phases, rotation_degrees, output_dims,
                   frameVars, output_size, render_end, pret>>

\* lines 130-144
ProcessOpen ==
    /\ ppc = "open"
    /\ IF ~video.opens THEN Raise("open_failed")
       ELSE IF video.fps <= 0 \/ video.w <= 0 \/ video.h <= 0
       THEN Raise("invalid_properties")
       ELSE ppc' = "writer" /\ perr' = perr
    /\ UNCHANGED <<call, inputVars, cacheVars, render_thread, raceVars, phases_data, agentVars, endpointVars, streamVars, orchVars, phases,
                   rotation_degrees, output_dims, frameVars, output_size,
                   render_end, pret>>

\* lines 148-160: the writer creates the output file, or cannot
ProcessWriter ==
    /\ ppc = "writer"
    /\ output_dims' = output_dimensions(rotation_degrees, video.w, video.h)
    /\ \E opened \in BOOLEAN :
         IF opened
         THEN /\ files' = files \cup {"output"}
              /\ created' = created \cup {"output"}
              /\ ppc' = "loop"
              /\ perr' = perr
         ELSE /\ Raise("writer_failed")
              /\ UNCHANGED <<files, created>>
    /\ UNCHANGED <<call, inputVars, cacheVars, render_thread, raceVars, phases_data, agentVars, endpointVars, streamVars, opc, feedback_doc,
                   orchHist, result, cause,
                   phases, rotation_degrees, frameVars, output_size,
                   render_end, pret>>

\* lines 164-250, one iteration of the frame loop
ProcessFrame ==
    /\ ppc = "loop"
    /\ frame_num < video.frames
    /\ \E pose \in BOOLEAN :
         LET timestamp == Time(frame_num, video.fps)
             r == get_phase_feedback(phases, timestamp)
         IN  /\ cur' = r
             /\ label' = Label(r.idx, r.name)
             /\ pose_found' = pose
             /\ markers' = DrawMarkers(pose, r.feedback, r.idx)
             /\ written' = written + Repeats(r.idx)
             /\ scanned' = IF r.idx = 0 THEN scanned + 1 ELSE scanned
             /\ dilated' = IF r.idx = 0 THEN dilated ELSE dilated + 1
    /\ frame_num' = frame_num + 1
    /\ UNCHANGED <<call, inputVars, cacheVars, render_thread, raceVars, phases_data, agentVars, endpointVars, streamVars, orchVars, ppc, phases,
                   rotation_degrees, output_dims, output_size, render_end,
                   pret, perr>>

\* lines 165-167 and 252-253: no frame is left; the writer is released and
\* leaves the file with some size, or no file
ProcessRelease ==
    /\ ppc = "loop"
    /\ frame_num = video.frames
    /\ \E exists \in BOOLEAN, size \in OutputSizes :
         /\ files' = IF exists THEN files \cup {"output"} ELSE files \ {"output"}
         /\ output_size' = IF exists THEN size ELSE 0
         /\ render_end' = IF ~exists THEN "missing"
                          ELSE IF size < MinOutputSize THEN "small" ELSE "ok"
    /\ ppc' = "check"
    /\ UNCHANGED <<call, inputVars, cacheVars, render_thread, raceVars, phases_data, agentVars, endpointVars, streamVars, opc, feedback_doc, created,
                   orchHist, result, cause,
                   phases, rotation_degrees, output_dims, frameVars, pret, perr>>

\* lines 255-266
ProcessCheck ==
    /\ ppc = "check"
    /\ LET err == OutputError("output" \in files, output_size) IN
         IF err # "none"
         THEN Raise(err) /\ pret' = pret
         ELSE ppc' = "returned" /\ pret' = "path" /\ perr' = perr
    /\ UNCHANGED <<call, inputVars, cacheVars, render_thread, raceVars, phases_data, agentVars, endpointVars, streamVars, orchVars, phases,
                   rotation_degrees, output_dims, frameVars, output_size, render_end>>

ProcessNext ==
    \/ ProcessUnavailable
    \/ ProcessLoad
    \/ ProcessProbe
    \/ ProcessOpen
    \/ ProcessWriter
    \/ ProcessFrame
    \/ ProcessRelease
    \/ ProcessCheck

---------------------------------------------------------------------------
(* _generate_overlay_sync(video_bytes, phases_data) *)

\* the four temporary files of a run
TempFiles == {"input", "feedback", "output", "compressed"}

\* how an ffmpeg run ends: the 120 s timeout expires, ffmpeg cannot be
\* started, or it exits with a return code; it may have written its output
\* file in each case
TranscoderOutcomes ==
    [kind : {"timeout", "oserror", "exit"}, rc : {0, 1}, wrote : BOOLEAN]

\* the error kind of an exception process raised
ErrorKind(err) ==
    IF err \in {"open_failed", "invalid_properties", "feedback_unreadable"}
    THEN "malformed"
    ELSE IF err \in {"output_missing", "output_too_small"} THEN "integrity"
    ELSE "render"

Return(value, why) ==
    /\ opc' = "returned"
    /\ result' = value
    /\ cause' = why

\* OrchAvailability without the availability check
OrchAvailability_NoCheck ==
    /\ opc = "called"
    /\ opc' = "convert"
    /\ UNCHANGED <<call, inputVars, cacheVars, render_thread, raceVars, phases_data, agentVars, endpointVars, streamVars, feedback_doc, files, created,
                   orchHist, result, cause, procVars>>

\* lines 579-591: the availability check
OrchAvailability ==
    /\ opc = "called"
    /\ IF env = "available"
       THEN opc' = "convert" /\ UNCHANGED <<result, cause>>
       ELSE Return("None", "unavailable")
    /\ UNCHANGED <<call, inputVars, cacheVars, render_thread, raceVars, phases_data, agentVars, endpointVars, streamVars, feedback_doc, files, created,
                   orchHist, procVars>>

\* lines 593-638: the descriptor is built, outside any try block, then the
\* input clip and the descriptor are written to temporary files
OrchPrepare ==
    /\ opc = "convert"
    /\ IF ConversionRaises(phases_data)
       THEN /\ opc' = "raised"
            /\ cause' = "conversion"
            /\ UNCHANGED <<feedback_doc, files, created>>
       ELSE /\ feedback_doc' = Doc(TRUE, build_feedback(phases_data))
            /\ files' = files \cup {"input", "feedback"}
            /\ created' = created \cup {"input", "feedback"}
            /\ opc' = "prepared"
            /\ cause' = cause
    /\ UNCHANGED <<call, inputVars, cacheVars, render_thread, raceVars, phases_data, agentVars, endpointVars,
                   streamVars, orchHist, result, procVars>>

\* line 642: create_overlay is called
OrchRender ==
    /\ opc = "prepared"
    /\ opc' = "rendering"
    /\ ppc' = "called"
    /\ UNCHANGED <<call, inputVars, cacheVars, render_thread, raceVars, phases_data, agentVars, endpointVars, streamVars, feedback_doc, files, created,
                   orchHist, result, cause,
                   phases, rotation_degrees, output_dims, frameVars,
                   output_size, render_end, pret, perr>>

\* lines 642-648 and 688-692: create_overlay returned or raised
OrchAfterRender ==
    /\ opc = "rendering"
    /\ ppc \in {"returned", "raised"}
    /\ IF ppc = "raised" THEN Return("None", ErrorKind(perr))
       ELSE IF "output" \notin files THEN Return("None", "integrity")
       ELSE opc' = "transcode" /\ UNCHANGED <<result, cause>>
    /\ UNCHANGED <<call, inputVars, cacheVars, render_thread, raceVars, phases_data, agentVars, endpointVars, streamVars, feedback_doc, files, created,
                   orchHist, procVars>>

\* TranscodeFailure without the return-code test
TranscodeFailure_IgnoreRc(outcome) ==
    IF outcome.kind = "timeout" THEN "timeout"
    ELSE IF outcome.kind = "oserror" THEN "transcoder"
    ELSE IF ~outcome.wrote THEN "transcoder"
    ELSE "ok"

\* the transcoder's verdict: "ok", or the failure the orchestrator returns on
TranscodeFailure(outcome) ==
    IF outcome.kind = "timeout" THEN "timeout"
    ELSE IF outcome.kind = "oserror" THEN "transcoder"
    ELSE IF outcome.rc # 0 THEN "transcoder"
    ELSE IF ~outcome.wrote THEN "transcoder"
    ELSE "ok"

\* lines 650-668 and 685-692: ffmpeg runs once and its result is judged
OrchTranscode ==
    /\ opc = "transcode"
    /\ \E outcome \in TranscoderOutcomes :
         /\ ffmpeg' = outcome
         /\ files' = IF outcome.wrote THEN files \cup {"compressed"} ELSE files
         /\ created' = IF outcome.wrote THEN created \cup {"compressed"} ELSE created
         /\ IF TranscodeFailure(outcome) = "ok"
            THEN opc' = "upload" /\ UNCHANGED <<result, cause>>
            ELSE Return("None", TranscodeFailure(outcome))
    /\ transcoder_runs' = transcoder_runs + 1
    /\ transcoded' = transcoded \cup {"output"}
    /\ UNCHANGED <<call, inputVars, cacheVars, render_thread, raceVars, phases_data, agentVars, endpointVars, streamVars, feedback_doc, uploads, uploaded,
                   upload_sent, procVars>>

\* the files the orchestrator removes before it returns with `why`
Cleanup(why, existing) == IF why = "ok" THEN existing \ TempFiles ELSE existing

\* lines 670-683 and 688-692: the upload, then the cleanup and the return
OrchUpload ==
    /\ opc = "upload"
    /\ uploads' = uploads + 1
    /\ uploaded' = uploaded \cup {"compressed"}
    /\ \E sent \in BOOLEAN :
         LET why == IF sent THEN "ok" ELSE "upload" IN
         /\ upload_sent' = IF sent THEN "ok" ELSE "failed"
         /\ files' = Cleanup(why, files)
         /\ Return(IF sent THEN "url" ELSE "None", why)
    /\ UNCHANGED <<call, inputVars, cacheVars, render_thread, raceVars, phases_data, agentVars, endpointVars, streamVars, feedback_doc, created,
                   transcoder_runs, transcoded, ffmpeg, procVars>>

OrchNext ==
    \/ OrchAvailability
    \/ OrchPrepare
    \/ OrchRender
    \/ OrchAfterRender
    \/ OrchTranscode
    \/ OrchUpload

---------------------------------------------------------------------------
(* The /generate-overlay endpoint.  Its whole body is one try block whose   *)
(* except clause answers {"error": str(e)}.                                  *)

Answer(value, why) ==
    /\ epc' = "answered"
    /\ response' = value
    /\ cause' = why

\* lines 1023-1068: the form field is parsed, the descriptor is built, the
\* clip and the descriptor are written to temporary files
EndpointPrepare ==
    /\ epc = "called"
    /\ \E parsed \in BOOLEAN :
         IF ~parsed
         THEN /\ Answer("error", "form")
              /\ UNCHANGED <<feedback_doc, files, created>>
         ELSE IF ConversionRaises(phases_data)
         THEN /\ Answer("error", "conversion")
              /\ UNCHANGED <<feedback_doc, files, created>>
         ELSE /\ feedback_doc' = Doc(TRUE, endpoint_build_feedback(phases_data))
              /\ files' = files \cup {"input", "feedback"}
              /\ created' = created \cup {"input", "feedback"}
              /\ epc' = "prepared"
              /\ UNCHANGED <<response, cause>>
    /\ UNCHANGED <<call, inputVars, cacheVars, render_thread, raceVars, phases_data, agentVars, streamVars, opc,
                   orchHist, result, procVars>>

\* line 1072: create_overlay is called in the coroutine of the async handler
EndpointRender ==
    /\ epc = "prepared"
    /\ epc' = "rendering"
    /\ ppc' = "called"
    /\ render_thread' = "event_loop"
    /\ UNCHANGED <<call, inputVars, cacheVars, raceVars, phases_data, agentVars,
                   streamVars, orchVars,
                   response, phases, rotation_degrees, output_dims, frameVars,
                   output_size, render_end, pret, perr>>

\* lines 1072 and 1096-1100: create_overlay returned, a path or None, or raised
EndpointAfterRender ==
    /\ epc = "rendering"
    /\ ppc \in {"returned", "raised"}
    /\ IF ppc = "raised" THEN Answer("error", ErrorKind(perr))
       ELSE epc' = "transcode" /\ UNCHANGED <<response, cause>>
    /\ UNCHANGED <<call, inputVars, cacheVars, render_thread, raceVars, phases_data, agentVars, streamVars, opc,
                   feedback_doc, files, created, orchHist, result, procVars>>

\* how the endpoint's ffmpeg run ends: there is no timeout, and of a
\* rendered file that does not exist ffmpeg makes nothing
EndpointTranscoderOutcomes ==
    { o \in TranscoderOutcomes :
        /\ o.kind # "timeout"
        /\ "output" \notin files => (o.kind = "exit" => (o.rc # 0 /\ ~o.wrote)) }

\* lines 1075-1080: ffmpeg runs; its return code is not looked at
EndpointTranscode ==
    /\ epc = "transcode"
    /\ \E outcome \in EndpointTranscoderOutcomes :
         /\ ffmpeg' = outcome
         /\ files' = IF outcome.wrote THEN files \cup {"compressed"} ELSE files
         /\ created' = IF outcome.wrote THEN created \cup {"compressed"} ELSE created
         /\ IF outcome.kind = "oserror"
            THEN Answer("error", "transcoder")
            ELSE epc' = "upload" /\ UNCHANGED <<response, cause>>
    /\ transcoder_runs' = transcoder_runs + 1
    /\ transcoded' = transcoded \cup {"output"}
    /\ UNCHANGED <<call, inputVars, cacheVars, render_thread, raceVars, phases_data, agentVars, streamVars, opc,
                   feedback_doc, uploads, uploaded, upload_sent, result, procVars>>

\* lines 1083-1100: upload_clip, which raises when the compressed file is
\* not there, then the cleanup and the answer
EndpointUpload ==
    /\ epc = "upload"
    /\ uploads' = uploads + 1
    /\ uploaded' = uploaded \cup {"compressed"}
    /\ \E sent \in {b \in BOOLEAN : b => "compressed" \in files} :
         LET why == IF sent THEN "ok" ELSE "upload" IN
         /\ upload_sent' = IF sent THEN "ok" ELSE "failed"
         /\ files' = Cleanup(why, files)
         /\ Answer(IF sent THEN "overlay_url" ELSE "error", why)
    /\ UNCHANGED <<call, inputVars, cacheVars, render_thread, raceVars, phases_data, agentVars, streamVars, opc,
                   feedback_doc, created, transcoder_runs, transcoded, ffmpeg,
                   result, procVars>>

EndpointNext ==
    \/ EndpointPrepare
    \/ EndpointRender
    \/ EndpointAfterRender
    \/ EndpointTranscode
    \/ EndpointUpload

---------------------------------------------------------------------------
(* run_streamed_agent(video_bytes, config, language).  stream_analysis      *)
(* forwards each event the generator yields as soon as it is yielded.       *)

\* the status field of an event of the stream
Status(event) ==
    IF event \in {"success"} THEN "success"
    ELSE IF event \in {"parse_error", "global_error", "timed_out",
                       "media_not_found"} THEN "error"
    ELSE IF event = "overlay" THEN "overlay"
    ELSE "event"

\* lines 165-167 and 205: the "Thinking..." event
AgentStart ==
    /\ spc = "coach"
    /\ apc = "start"
    /\ stream' = Append(stream, "thinking")
    /\ apc' = IF mock_coach THEN "mock" ELSE "call"
    /\ UNCHANGED <<call, inputVars, cacheVars, render_thread, raceVars, phases_data, worker, endpointVars, spc,
                   orchVars, procVars>>

\* lines 168-197: the canned answer; stream_analysis (540-541) keeps its phases
AgentMock ==
    /\ apc = "mock"
    /\ stream' = Append(stream, "success")
    /\ phases_data' = MockPhases
    /\ apc' = "done"
    /\ UNCHANGED <<call, inputVars, cacheVars, render_thread, raceVars, worker, endpointVars, spc, orchVars, procVars>>

\* lines 207-230: call_gemini is handed to a worker thread and awaited
AgentCall ==
    /\ apc = "call"
    /\ worker' = "running"
    /\ apc' = "waiting"
    /\ UNCHANGED <<call, inputVars, cacheVars, render_thread, raceVars, phases_data, endpointVars, streamVars,
                   orchVars, procVars>>

\* lines 217-225: generate_content returns or raises, awaited or not
WorkerFinish ==
    /\ worker \in {"running", "orphaned"}
    /\ \E ok \in BOOLEAN :
         worker' = IF worker = "orphaned" THEN "orphan_done"
                   ELSE IF ok THEN "finished" ELSE "failed"
    /\ UNCHANGED <<call, inputVars, cacheVars, render_thread, raceVars, phases_data, apc, endpointVars, streamVars,
                   orchVars, procVars>>

\* lines 231-268: the answer is parsed and mapped to the success event, or
\* cannot be; stream_analysis (540-541) keeps the phases of a success event
AgentResponse ==
    /\ apc = "waiting"
    /\ worker = "finished"
    /\ \E parsed \in BOOLEAN, answer \in CoachPhases :
         IF parsed
         THEN /\ stream' = Append(stream, "success")
              /\ phases_data' = answer
         ELSE /\ stream' = Append(stream, "parse_error")
              /\ phases_data' = phases_data
    /\ apc' = "done"
    /\ UNCHANGED <<call, inputVars, cacheVars, render_thread, raceVars, worker, endpointVars, spc, orchVars, procVars>>

\* AgentException with the exception swallowed: the generator ends without
\* an event
AgentException_Silent ==
    /\ apc = "waiting"
    /\ worker = "failed"
    /\ apc' = "done"
    /\ UNCHANGED <<call, inputVars, cacheVars, render_thread, raceVars,
                   phases_data, worker, endpointVars, streamVars, orchVars,
                   procVars>>

\* lines 273-275: generate_content raised
AgentException ==
    /\ apc = "waiting"
    /\ worker = "failed"
    /\ stream' = Append(stream, "global_error")
    /\ apc' = "done"
    /\ UNCHANGED <<call, inputVars, cacheVars, render_thread, raceVars, phases_data, worker, endpointVars, spc,
                   orchVars, procVars>>

\* TimeoutEvent yielding a success event
TimeoutEvent_Success == "success"

\* the event of the except asyncio.TimeoutError clause
TimeoutEvent == "timed_out"

\* lines 227-230 and 270-272: the 180 s wait expires; the thread runs on
AgentTimeout ==
    /\ apc = "waiting"
    /\ worker = "running"
    /\ stream' = Append(stream, TimeoutEvent)
    /\ worker' = "orphaned"
    /\ apc' = "done"
    /\ UNCHANGED <<call, inputVars, cacheVars, render_thread, raceVars, phases_data, endpointVars, spc, orchVars,
                   procVars>>

AgentNext ==
    \/ AgentStart
    \/ AgentMock
    \/ AgentCall
    \/ WorkerFinish
    \/ AgentResponse
    \/ AgentException
    \/ AgentTimeout

---------------------------------------------------------------------------
(* stream_analysis.event_generator, from the call of run_streamed_agent *)

\* lines 492-509: /analyze stores the upload in analysis_cache and starts
\* the cleanup task
AnalyzeBowl ==
    /\ spc = "upload"
    /\ cache' = TRUE
    /\ timer' = "pending"
    /\ spc' = "lookup"
    /\ UNCHANGED <<call, inputVars, media, render_thread, raceVars, phases_data,
                   agentVars, endpointVars, stream, orchVars, procVars>>

\* CacheTimer with the pop left out
CacheTimer_NoPop ==
    /\ timer = "pending"
    /\ timer' = "fired"
    /\ UNCHANGED <<call, inputVars, cache, media, render_thread, raceVars,
                   phases_data, agentVars, endpointVars, streamVars, orchVars,
                   procVars>>

\* lines 504-507: the cleanup task wakes after 600 s and pops the entry
CacheTimer ==
    /\ timer = "pending"
    /\ cache' = FALSE
    /\ timer' = "fired"
    /\ UNCHANGED <<call, inputVars, media, render_thread, raceVars, phases_data,
                   agentVars, endpointVars, streamVars, orchVars, procVars>>

\* lines 514-532: the video is taken from analysis_cache, else from disk
\* or GCS, else the stream ends with the 'Media not found' error event
StreamLookup ==
    /\ spc = "lookup"
    /\ \E found \in BOOLEAN :
         IF cache \/ found
         THEN /\ media' = IF cache THEN "memory" ELSE "fallback"
              /\ spc' = "coach"
              /\ stream' = stream
         ELSE /\ media' = "missing"
              /\ stream' = Append(stream, "media_not_found")
              /\ spc' = "done"
    /\ UNCHANGED <<call, inputVars, cache, timer, render_thread, raceVars,
                   phases_data, agentVars, endpointVars, orchVars, procVars>>

\* line 537: the agent's generator is exhausted
StreamCoachDone ==
    /\ spc = "coach"
    /\ apc = "done"
    /\ spc' = "after_coach"
    /\ UNCHANGED <<call, inputVars, cacheVars, render_thread, raceVars, phases_data, agentVars, endpointVars, stream,
                   orchVars, procVars>>

\* lines 543-547 and 695-698: the overlay step is taken only with the query
\* flag set and phases captured; it announces itself, hands
\* _generate_overlay_sync to a worker thread and awaits it
StreamOverlayStep ==
    /\ spc = "after_coach"
    /\ IF want_overlay /\ phases_data # << >>
       THEN /\ stream' = Append(stream, "annotating")
            /\ spc' = "awaiting"
            /\ opc' = "called"
            /\ render_thread' = "worker"
       ELSE /\ spc' = "cache_cleanup"
            /\ UNCHANGED <<stream, opc, render_thread>>
    /\ UNCHANGED <<call, inputVars, cacheVars, raceVars, phases_data, agentVars,
                   endpointVars, feedback_doc, files, created, orchHist, result,
                   cause, procVars>>

\* the event the caller yields for the orchestrator's return value
OverlayEvent(value) == IF value = "url" THEN "overlay" ELSE "skipped_or_failed"

\* RaisedEvent with the status "error"
RaisedEvent_Error == "global_error"

\* the event of the except clause, which carries str(e)
RaisedEvent == "failed_with_text"

\* lines 547-558: generate_overlay_video returned or raised
StreamAfterOverlay ==
    /\ spc = "awaiting"
    /\ opc \in {"returned", "raised"}
    /\ stream' = Append(stream, IF opc = "raised" THEN RaisedEvent
                                ELSE OverlayEvent(result))
    /\ spc' = "cache_cleanup"
    /\ UNCHANGED <<call, inputVars, cacheVars, render_thread, raceVars, phases_data, agentVars, endpointVars, orchVars, procVars>>

\* lines 560-562: the entry is popped if it is still there
StreamEnd ==
    /\ spc = "cache_cleanup"
    /\ cache' = FALSE
    /\ spc' = "done"
    /\ UNCHANGED <<call, inputVars, timer, media, render_thread, raceVars,
                   phases_data, agentVars, endpointVars, stream, orchVars,
                   procVars>>

StreamNext ==
    \/ StreamLookup
    \/ StreamCoachDone
    \/ StreamOverlayStep
    \/ StreamAfterOverlay
    \/ StreamEnd

---------------------------------------------------------------------------
(* The pipeline *)

---------------------------------------------------------------------------
(* Temporary files of renders that run at the same time.  tempfile gives    *)
(* the input file a name no existing file has; the three other paths are   *)
(* derived from it by string replacement.                                    *)

File(n, k, r) == [name |-> n, kind |-> k, owner |-> r]
\* open(path, "w") and ffmpeg -y: the file is created or replaced
WriteFile(d, n, k, r) == { f \in d : ~(f.name = n /\ f.kind = k) } \cup {File(n, k, r)}
\* os.path.exists(path)
Exists(d, n, k) == \E f \in d : f.name = n /\ f.kind = k
\* if os.path.exists(p): os.remove(p)
RemoveFile(d, n, k) == { f \in d : ~(f.name = n /\ f.kind = k) }

RenderStep(r, pc) == renders' = [renders EXCEPT ![r].pc = pc]

RaceUnchanged ==
    UNCHANGED <<call, inputVars, cacheVars, render_thread, phases_data,
                agentVars, endpointVars, streamVars, orchVars, procVars>>

\* lines 628-630: NamedTemporaryFile creates the input file exclusively
RenderSaveInput(r) ==
    /\ renders[r].pc = "idle"
    /\ \E n \in Names :
         /\ ~Exists(disk, n, "input")
         /\ disk' = WriteFile(disk, n, "input", r)
         /\ renders' = [renders EXCEPT ![r] = [pc |-> "input_saved", name |-> n]]
    /\ RaceUnchanged

\* lines 632-635
RenderSaveFeedback(r) ==
    /\ renders[r].pc = "input_saved"
    /\ disk' = WriteFile(disk, renders[r].name, "feedback", r)
    /\ RenderStep(r, "saved")
    /\ RaceUnchanged

\* lines 637-648: create_overlay reads both files; a missing file raises,
\* and a render that leaves no output file fails
RenderCreateOverlay(r) ==
    /\ renders[r].pc = "saved"
    /\ LET n == renders[r].name IN
       IF ~Exists(disk, n, "input") \/ ~Exists(disk, n, "feedback")
       THEN /\ RenderStep(r, "failed")
            /\ disk' = disk
       ELSE \E wrote \in BOOLEAN :
              /\ disk' = IF wrote THEN WriteFile(disk, n, "output", r) ELSE disk
              /\ RenderStep(r, IF Exists(disk', n, "output")
                               THEN "rendered" ELSE "failed")
    /\ RaceUnchanged

\* lines 650-668
RenderCompress(r) ==
    /\ renders[r].pc = "rendered"
    /\ LET n == renders[r].name IN
       \E ok \in BOOLEAN :
         LET wrote == ok /\ Exists(disk, n, "output") IN
         /\ disk' = IF wrote THEN WriteFile(disk, n, "compressed", r) ELSE disk
         /\ RenderStep(r, IF wrote THEN "compressed" ELSE "failed")
    /\ RaceUnchanged

\* lines 670-676
RenderUploadClip(r) ==
    /\ renders[r].pc = "compressed"
    /\ \E sent \in BOOLEAN :
         RenderStep(r, IF sent /\ Exists(disk, renders[r].name, "compressed")
                       THEN "rm_input" ELSE "failed")
    /\ disk' = disk
    /\ RaceUnchanged

\* lines 678-681: the four paths are removed one after the other
RenderRemove(r) ==
    /\ renders[r].pc \in {"rm_input", "rm_feedback", "rm_output", "rm_compressed"}
    /\ LET pc == renders[r].pc
           k  == IF pc = "rm_input" THEN "input"
                 ELSE IF pc = "rm_feedback" THEN "feedback"
                 ELSE IF pc = "rm_output" THEN "output" ELSE "compressed"
       IN  /\ disk' = RemoveFile(disk, renders[r].name, k)
           /\ RenderStep(r, IF pc = "rm_input" THEN "rm_feedback"
                             ELSE IF pc = "rm_feedback" THEN "rm_output"
                             ELSE IF pc = "rm_output" THEN "rm_compressed"
                             ELSE "done")
    /\ RaceUnchanged

NoCall == [fn |-> "none"]

Init ==
    /\ call = NoCall
    /\ \E run \in StreamRuns \cup CliRuns \cup EndpointRuns : StartRun(run)

Next ==
    \/ AgentNext
    \/ StreamNext
    \/ OrchNext
    \/ EndpointNext
    \/ ProcessNext

Spec == Init /\ [][Next]_vars

\* The cleanup task is created with asyncio.create_task (line 507): the event
\* loop runs it once its sleep is over, whatever the stream request does.
InitCache ==
    /\ call = NoCall
    /\ \E run \in CacheRuns : StartRun(run)
NextCache ==
    \/ AnalyzeBowl
    \/ CacheTimer
    \/ AgentNext
    \/ StreamNext
    \/ OrchNext
    \/ ProcessLoad
    \/ ProcessProbe
    \/ ProcessOpen
    \/ ProcessWriter
    \/ ProcessFrame
    \/ ProcessRelease
    \/ ProcessCheck
SpecCache == InitCache /\ [][NextCache]_vars /\ WF_vars(CacheTimer)

InitRace == call = NoCall /\ StartRun(NoRun)
NextRace ==
    \E r \in Renders :
        \/ RenderSaveInput(r)
        \/ RenderSaveFeedback(r)
        \/ RenderCreateOverlay(r)
        \/ RenderCompress(r)
        \/ RenderUploadClip(r)
        \/ RenderRemove(r)
SpecRace == InitRace /\ [][NextRace]_vars

---------------------------------------------------------------------------
(* Properties *)

\* the union of a feedback record's three categories
Named(fb) == fb.injury_risk \cup fb.slow \cup fb.good

\* the playback time of the frame just rendered
LastTimestamp == Time(frame_num - 1, video.fps)

\* C1: with phase_idx >= 1, get_color gives RED to a joint listed in
\* injury_risk, else YELLOW to one listed in slow, else GREEN to one listed
\* in good, for every combination of the three categories.
C1_ColorPriority ==
    (call.fn = "get_color" /\ call.pc = "returned" /\ call.phase_idx >= 1) =>
        LET fb == call.feedback
            j  == call.name
        IN  /\ j \in fb.injury_risk => call.ret = RED
            /\ (j \notin fb.injury_risk /\ j \in fb.slow) => call.ret = YELLOW
            /\ (j \notin fb.injury_risk /\ j \notin fb.slow /\ j \in fb.good)
                  => call.ret = GREEN

\* a joint listed in all three categories came out red
C1_Witness ==
    /\ call.fn = "get_color" /\ call.pc = "returned" /\ call.phase_idx >= 1
    /\ call.name \in call.feedback.injury_risk
    /\ call.name \in call.feedback.slow
    /\ call.name \in call.feedback.good
    /\ call.ret = RED

\* C2: in a frame whose active phase index is >= 1, a landmark that none of
\* the active phase's three sets names has no marker.
C2_SelectiveDisclosure ==
    (frame_num > 0 /\ cur.idx >= 1) =>
        \A j \in Landmarks :
            j \notin Named(phases[cur.idx + 1].feedback) => markers[j] = None

\* a feedback frame with a pose, a marked joint and an unmarked key joint
C2_Witness ==
    /\ frame_num > 0 /\ cur.idx >= 1 /\ pose_found
    /\ \E j \in KEY_JOINTS : markers[j] # None
    /\ \E j \in KEY_JOINTS :
          j \notin Named(phases[cur.idx + 1].feedback) /\ markers[j] = None

\* C3: in a frame whose timestamp lies in the first phase's interval, every
\* one of the 12 key joints of a detected pose is marked in the scanning
\* colour (180,180,180), whatever the first phase's feedback names.
C3_ScanningColor ==
    ( /\ frame_num > 0 /\ Len(phases) >= 1 /\ pose_found
      /\ TLeq(phases[1].start, LastTimestamp)
      /\ TLess(LastTimestamp, phases[1].end) ) =>
        \A j \in KEY_JOINTS : markers[j] = <<180, 180, 180>>

\* a scanning frame whose phase names some key joints and not others
C3_Witness ==
    /\ frame_num > 0 /\ Len(phases) >= 1 /\ pose_found
    /\ TLeq(phases[1].start, LastTimestamp)
    /\ TLess(LastTimestamp, phases[1].end)
    /\ Named(phases[1].feedback) # {}
    /\ KEY_JOINTS \ Named(phases[1].feedback) # {}
    /\ \A j \in KEY_JOINTS : markers[j] = <<180, 180, 180>>

\* C4: get_phase_feedback returns index, name and feedback of the first
\* phase whose half-open interval [start, end) holds t, and index
\* len(phases)-1 with the name "done" when no phase does; on the scenario
\* phases t=1.9 gives index 0 and t=2.1 gives index 1 with RIGHT_ELBOW red.
C4_PhaseLookup ==
    (call.fn = "get_phase_feedback" /\ call.pc = "returned") =>
        LET ps   == call.phases
            t    == call.timestamp
            r    == call.ret
            hits == { i \in 1..Len(ps) :
                        TLeq(ps[i].start, t) /\ TLess(t, ps[i].end) }
        IN  /\ hits # {} =>
                  \E i \in hits :
                      /\ \A k \in hits : i <= k
                      /\ r = [idx |-> i - 1, name |-> ps[i].name,
                              feedback |-> ps[i].feedback]
            /\ hits = {} => (r.idx = Len(ps) - 1 /\ r.name = S_done)
            /\ (ps = ScenarioPhases /\ t = Time(19, 10)) =>
                  (r.idx = 0 /\ r.name = S_Run_up)
            /\ (ps = ScenarioPhases /\ t = Time(21, 10)) =>
                  /\ r.idx = 1 /\ r.name = S_Release
                  /\ get_color("RIGHT_ELBOW", r.feedback, r.idx) = RED

\* a timestamp equal to the first phase's end resolved to the second phase
C4_Witness ==
    /\ call.fn = "get_phase_feedback" /\ call.pc = "returned"
    /\ call.phases = ScenarioPhases
    /\ call.timestamp = Time(20, 10)
    /\ call.ret.idx = 1

\* C5: the frames written so far number S + 4*F, S and F being the frames
\* rendered with phase index 0 and with another index, every decoded frame
\* being one or the other; the 120-frame 30 fps clip with the phases [0,2)
\* and [2,4) ends with 60 + 4*60 = 300 written frames.
C5_FrameDilation ==
    /\ written = scanned + 4 * dilated
    /\ scanned + dilated = frame_num
    /\ (video = Clip120 /\ phases = ScenarioPhases /\ render_end # "pending") =>
            (scanned = 60 /\ dilated = 60 /\ written = 300)

\* the scenario clip was rendered to its end
C5_Witness ==
    /\ video = Clip120 /\ phases = ScenarioPhases
    /\ ppc = "returned" /\ pret = "path"
    /\ written = 300

C7_IntegrityFailure ==
    render_end \in {"missing", "small"} =>
        /\ pret # "path"
        /\ ppc \in {"returned", "raised"} =>
              (ppc = "raised" /\ perr \in {"output_missing", "output_too_small"})
        /\ transcoded = {} /\ transcoder_runs = 0
        /\ uploaded = {} /\ uploads = 0
        /\ result # "url"
        /\ opc = "returned" => result = "None"

\* frames were written, the file came out small, the orchestrator gave up
C7_Witness ==
    /\ render_end = "small"
    /\ written > 0
    /\ opc = "returned"
    /\ result = "None"

\* the run in which every step succeeded
FullSuccess ==
    /\ env = "available"
    /\ ppc = "returned" /\ pret = "path" /\ render_end = "ok"
    /\ ffmpeg.kind = "exit" /\ ffmpeg.rc = 0 /\ ffmpeg.wrote
    /\ upload_sent = "ok"

\* C8: the orchestrator returns an artifact reference only when the
\* availability check, the render with its integrity check, the transcoder
\* (exit code 0, output file written) and the upload all succeeded, and
\* returns None otherwise.
C8_ArtifactOnlyOnSuccess ==
    /\ result = "url" => (opc = "returned" /\ FullSuccess)
    /\ (opc = "returned" /\ ~FullSuccess) => result = "None"

\* the orchestrator returned an artifact reference
C8_Witness ==
    /\ opc = "returned"
    /\ result = "url"

\* C9: when the orchestrator returns, none of the temporary files it
\* created exists any more.
C9_CleanupOnEveryExit ==
    opc = "returned" => created \cap files = {}

\* the causes that are fatal errors
FatalCauses == {"malformed", "integrity", "transcoder", "timeout"}

\* C10: a fatal error never gives the caller what the unavailable feature
\* gives it: a None return value, and the event the stream yields for it.
C10_NullDistinctFromFatal ==
    /\ (opc = "returned" /\ cause \in FatalCauses) => result # "None"
    /\ (spc = "done" /\ cause \in FatalCauses) =>
          stream[Len(stream)] # OverlayEvent("None")

\* C11: the orchestrator never raises, and no event of the stream carries
\* the text of an exception of the render pipeline.
C11_FailuresCaught ==
    /\ opc # "raised"
    /\ \A i \in 1..Len(stream) : stream[i] # "failed_with_text"

\* C12: overlay generation starts only after the coach's success event is
\* in the stream, and every event that follows the announcement of the
\* overlay step has the status "event" or "overlay"; no event after the
\* success event has the status "error".
C12_ReportBeforeOverlay ==
    /\ opc # "idle" => \E i \in 1..Len(stream) : stream[i] = "success"
    /\ \A i \in 1..Len(stream) :
          stream[i] = "annotating" =>
              /\ \E j \in 1..(i - 1) : stream[j] = "success"
              /\ \A k \in (i + 1)..Len(stream) :
                    Status(stream[k]) \in {"event", "overlay"}
    /\ \A i \in 1..Len(stream) :
          stream[i] = "success" =>
              \A k \in (i + 1)..Len(stream) : Status(stream[k]) # "error"

\* the orchestrator raised after the report was sent, and the stream ended
C12_Witness ==
    /\ spc = "done"
    /\ opc = "raised"
    /\ stream[2] = "success"
    /\ stream[Len(stream)] = "failed_with_text"

\* the transcoder run failed: timeout, non-zero exit code or no output file
TranscoderFailed ==
    \/ ffmpeg.kind = "timeout"
    \/ ffmpeg.kind = "exit" /\ (ffmpeg.rc # 0 \/ ~ffmpeg.wrote)

\* C13: the transcoder runs at most once, and only after the renderer
\* returned; when it times out, exits with a non-zero code or leaves no
\* output file, no upload is made and no artifact is returned.
C13_TranscoderOnceTerminal ==
    /\ transcoder_runs <= 1
    /\ transcoder_runs > 0 => ppc = "returned"
    /\ TranscoderFailed =>
          (uploads = 0 /\ result # "url" /\ response # "overlay_url")

\* C14: a render whose descriptor has zero phases renders and writes no
\* frame and produces no artifact.
C14_EmptyPhasesFatal ==
    (feedback_doc.readable /\ feedback_doc.phases = << >>) =>
        /\ frame_num = 0 /\ written = 0
        /\ pret # "path"
        /\ result # "url" /\ response # "overlay_url"

\* the source cannot be opened or reports unusable properties
BadSource ==
    ~video.opens \/ video.fps <= 0 \/ video.w <= 0 \/ video.h <= 0

\* C15: with a source that cannot be opened, or whose frame rate, width or
\* height is not positive, process never reaches the creation of the
\* writer: no output file is created, no frame is read or written, no path
\* is returned, and process raises once the estimator is available and the
\* descriptor loaded.
C15_SourceValidation ==
    BadSource =>
        /\ ppc \notin {"writer", "loop", "check"}
        /\ "output" \notin created
        /\ frame_num = 0 /\ written = 0
        /\ pret # "path"
        /\ ppc = "returned" => env # "available"
        /\ ppc = "raised" =>
              perr \in {"feedback_unreadable", "open_failed", "invalid_properties"}

\* a clip that opens with a frame rate of 0 made process raise
C15_Witness ==
    /\ video.opens /\ video.fps <= 0
    /\ ppc = "raised"
    /\ perr = "invalid_properties"

\* C16: the rotation angle of the render is 0, 90, 180 or 270.
C16_RotationInSet ==
    rotation_degrees \in {0, 90, 180, 270}

\* the probe of process has run
Probed ==
    \/ ppc \in {"open", "writer", "loop", "check"}
    \/ ppc = "returned" /\ pret = "path"
    \/ ppc = "raised" /\ perr # "feedback_unreadable"

\* C17: a probed rotation v in {-270, -180, -90, 0} gives the angle
\* (360 + v) mod 360: 90, 180, 270 and 0.
C17_NegativeNormalised ==
    ( /\ Probed
      /\ video.probe.kind \in {"rotate", "rotation"}
      /\ video.probe.v \in {-270, -180, -90, 0} ) =>
        /\ rotation_degrees = (360 + video.probe.v) % 360
        /\ video.probe.v = -90 => rotation_degrees = 270
        /\ video.probe.v = -180 => rotation_degrees = 180
        /\ video.probe.v = -270 => rotation_degrees = 90
        /\ video.probe.v = 0 => rotation_degrees = 0

\* a rotation of -270 was probed and normalised to 90
C17_Witness ==
    /\ Probed
    /\ video.probe = [kind |-> "rotation", v |-> -270]
    /\ rotation_degrees = 90

\* C18: once the output dimensions are computed, they are the source's
\* height and width for a rotation of 90 or 270, and the source's width and
\* height for a rotation of 0 or 180.
C18_DimensionSwap ==
    output_dims # <<0, 0>> =>
        /\ rotation_degrees \in {90, 270} => output_dims = <<video.h, video.w>>
        /\ rotation_degrees \in {0, 180} => output_dims = <<video.w, video.h>>

\* a 4x3 clip rotated by 270 is rendered 3x4
C18_Witness ==
    /\ rotation_degrees = 270
    /\ video.w = 4 /\ video.h = 3
    /\ output_dims = <<3, 4>>

\* every joint a lookup table names, in any category of any phase name
TableJoints(map) ==
    UNION { DictGet(map[i][2], c, {}) :
              i \in 1..Len(map), c \in {"good", "slow", "injury_risk"} }

\* C19: KEY_JOINTS has 12 names; every joint of the phase-name lookup
\* tables is one of them, as is every joint, from a table or from a
\* default, of a descriptor the conversion built; no landmark outside
\* KEY_JOINTS has a marker.
C19_OnlyKeyJoints ==
    /\ Cardinality(KEY_JOINTS) = 12
    /\ TableJoints(joint_map) \cup TableJoints(endpoint_joint_map) \subseteq KEY_JOINTS
    /\ (entry \in {"stream", "endpoint"} /\ feedback_doc.readable) =>
          \A k \in 1..Len(feedback_doc.phases) :
              Named(feedback_doc.phases[k].feedback) \subseteq KEY_JOINTS
    /\ \A l \in Landmarks \ KEY_JOINTS : markers[l] = None

\* a scanning frame of a converted descriptor: the key joints are marked,
\* the other landmarks of the detected pose are not
C19_Witness ==
    /\ entry = "stream" /\ frame_num > 0 /\ pose_found /\ cur.idx = 0
    /\ phases[1].feedback.slow = {"RIGHT_SHOULDER"}
    /\ \A l \in KEY_JOINTS : markers[l] # None
    /\ \A l \in Landmarks \ KEY_JOINTS : markers[l] = None

\* C20: when the 180 s wait for the coach's answer expired, the agent has
\* ended, the stream holds an event with the status "error" for the timeout
\* and no success event, whether or not the worker thread has ended.
C20_TimeoutSurfaced ==
    worker \in {"orphaned", "orphan_done"} =>
        /\ apc = "done"
        /\ \A i \in 1..Len(stream) : stream[i] # "success"
        /\ Status(stream[Len(stream)]) = "error"
        /\ opc = "idle"

\* the stream ended after the timeout while the worker thread still runs
C20_Witness ==
    /\ worker = "orphaned"
    /\ spc = "done"
    /\ stream = <<"thinking", "timed_out">>

\* the request carries a valid credential: "Bearer " followed by the secret,
\* or the legacy header with the secret
ValidCredential ==
    \/ call.authorization = Header(S_Bearer \o API_SECRET)
    \/ call.legacy = Header(API_SECRET)

\* C21: a request to a path other than '/', '/docs', '/openapi.json' and
\* '/health' that carries neither "Authorization: Bearer <API_SECRET>" nor
\* an X-WellBowled-Secret header equal to API_SECRET is answered 401 and the
\* route handler is not invoked.
C21_Unauthenticated401 ==
    (/\ call.fn = "verify_authentication"
     /\ call.pc = "returned"
     /\ call.path \notin ExemptPaths
     /\ ~ValidCredential)
        => (call.ret.status = 401 /\ ~call.ret.handler)

C21_Witness ==
    /\ call.fn = "verify_authentication"
    /\ call.pc = "returned"
    /\ call.path = S_health_slash
    /\ call.authorization = Header(S_Bearer \o S_wrong)
    /\ call.legacy = Header(S_wrong)
    /\ call.ret.status = 401
    /\ ~call.ret.handler

\* the phases are time-ordered and do not overlap
TimeOrdered(ps) ==
    /\ \A i \in 1..Len(ps) : TLess(ps[i].start, ps[i].end)
    /\ \A i \in 1..(Len(ps) - 1) : TLeq(ps[i].end, ps[i + 1].start)

\* C22: in a frame whose timestamp lies beyond the last phase's end the
\* renderer is pinned to the last phase: the index is the last one, the
\* caption is "done" (in either case), and every key joint the last phase's
\* feedback names is drawn in the colour that feedback gives it.
C22_DonePinned ==
    ( /\ frame_num > 0 /\ Len(phases) >= 1 /\ TimeOrdered(phases)
      /\ TLess(phases[Len(phases)].end, LastTimestamp) ) =>
        LET last == phases[Len(phases)] IN
        /\ cur.idx = Len(phases) - 1
        /\ label \in {S_done, upper(S_done)}
        /\ pose_found =>
              \A j \in Named(last.feedback) \cap KEY_JOINTS :
                  markers[j] = get_color(j, last.feedback, Len(phases) - 1)

\* C23: from one rendered frame to the next the active phase index never
\* decreases.
C23_IndexMonotone ==
    [][(frame_num > 0 /\ frame_num' = frame_num + 1 /\ TimeOrdered(phases))
          => cur'.idx >= cur.idx]_vars

\* a = b on rationals with positive denominators
TEq(a, b) == a.n * b.d = b.n * a.d

\* C24: the descriptor _generate_overlay_sync builds from N >= 1 verdicts has
\* exactly N phases in the verdicts' order, phase i (from 0) spanning
\* [i*D/N, (i+1)*D/N) with D = 5: equal widths, each end the next start, the
\* first start 0 and the last end D.
C24_EqualSlices ==
    (entry = "stream" /\ feedback_doc.readable /\ Len(phases_data) >= 1) =>
        LET ps == feedback_doc.phases
            N  == Len(phases_data)
        IN  /\ Len(ps) = N
            /\ \A i \in 1..N :
                  /\ ps[i].name = phases_data[i].name
                  /\ TEq(ps[i].start, Time((i - 1) * 5, N))
                  /\ TEq(ps[i].end, Time(i * 5, N))
                  /\ TLess(ps[i].start, ps[i].end)
            /\ \A i \in 1..(N - 1) : TEq(ps[i].end, ps[i + 1].start)
            /\ TEq(ps[1].start, Time(0, 1))
            /\ TEq(ps[N].end, Time(5, 1))

C24_Witness ==
    /\ entry = "stream" /\ feedback_doc.readable
    /\ Len(feedback_doc.phases) = 3
    /\ feedback_doc.phases[2].start = Time(5, 3)
    /\ feedback_doc.phases[2].end = Time(10, 3)

\* C25: while the render or the transcoder of a request runs or has run, the
\* pipeline is on a worker thread, and a stream request with its pipeline
\* under way is suspended at the await of the dispatch.
C25_RenderOnWorker ==
    /\ (entry \in {"stream", "endpoint"} /\ (ppc # "idle" \/ transcoder_runs > 0))
          => render_thread = "worker"
    /\ (entry = "stream" /\ opc \notin {"idle", "returned", "raised"})
          => spc = "awaiting"

\* the files a render has written and not yet removed
Holds(r) ==
    LET pc == renders[r].pc IN
    IF pc = "input_saved" THEN {"input"}
    ELSE IF pc = "saved" THEN {"input", "feedback"}
    ELSE IF pc = "rendered" THEN {"input", "feedback", "output"}
    ELSE IF pc \in {"compressed", "rm_input"}
         THEN {"input", "feedback", "output", "compressed"}
    ELSE IF pc = "rm_feedback" THEN {"feedback", "output", "compressed"}
    ELSE IF pc = "rm_output" THEN {"output", "compressed"}
    ELSE IF pc = "rm_compressed" THEN {"compressed"}
    ELSE {}

\* C26: renders under way at the same time use different paths, and every
\* file a render has written and not yet removed is still on disk as that
\* render wrote it: no other render has replaced or removed it.
C26_DisjointTempFiles ==
    /\ \A r1, r2 \in Renders :
          (r1 # r2 /\ Holds(r1) # {} /\ Holds(r2) # {})
              => renders[r1].name # renders[r2].name
    /\ \A r \in Renders : \A k \in Holds(r) :
          File(renders[r].name, k, r) \in disk

\* C27: after a probe that printed no rotation tag, failed, or printed a
\* value int() rejects, the rotation is 0 and the render has gone on: the
\* probe is never the reason a render raises.
C27_ProbeFailureTolerated ==
    (Probed /\ video.probe.kind \in {"absent", "fail", "garbage"}) =>
        /\ rotation_degrees = 0
        /\ perr # "probe_failed"
        /\ output_dims \in {<<0, 0>>, <<video.w, video.h>>}

C27_Witness ==
    /\ ppc = "loop" /\ frame_num > 0
    /\ video.probe.kind = "fail"
    /\ rotation_degrees = 0
    /\ output_dims = <<video.w, video.h>>

\* C28: run_streamed_agent yields the 'Thinking' event first and nothing
\* else until it ends, and it ends by yielding exactly one more event, a
\* success or an error event, in mock mode and in live mode alike.
C28_ThinkingThenOneTerminal ==
    /\ apc \in {"mock", "call", "waiting"} => stream = <<"thinking">>
    /\ apc = "done" =>
          /\ Len(stream) >= 2
          /\ stream[1] = "thinking"
          /\ Status(stream[2]) \in {"success", "error"}
          /\ spc = "coach" => Len(stream) = 2

C28_Witness ==
    /\ apc = "done" /\ spc = "coach" /\ ~mock_coach
    /\ stream = <<"thinking", "global_error">>

C30_VerdictFeedback ==
    (call.fn = "verdict_feedback" /\ call.pc = "returned") =>
        LET fb     == call.ret
            status == upper(call.status)
            isGood == Contains(S_GOOD, status)
            isWork == Contains(S_NEEDS_WORK, status)
        IN  /\ isGood =>
                  fb.injury_risk = {} /\ fb.slow = {} /\ fb.good # {}
            /\ (~isGood /\ isWork) => fb.good = {} /\ fb.slow # {}
            /\ (~isGood /\ ~isWork) => fb = EmptyFeedback
            /\ fb.good \cap fb.slow = {}
            /\ fb.good \cap fb.injury_risk = {}
            /\ fb.slow \cap fb.injury_risk = {}

C30_Witness ==
    /\ call.fn = "verdict_feedback" /\ call.pc = "returned"
    /\ call.name = S_Release /\ call.status = S_NEEDS_WORK
    /\ call.ret = [good |-> {}, slow |-> {"RIGHT_SHOULDER"},
                   injury_risk |-> {"RIGHT_ELBOW"}]

====
